---- MODULE Spec2Model ----
(***************************************************************************)
(* liquid-heck: eight Liquid filters (src/src/lib.rs) that hand the string *)
(* form of their input to the heck crate's case conversions.               *)
(*                                                                         *)
(* A string is a sequence of characters, each written as a string: the     *)
(* ASCII letters, digits and separators as themselves, and three others by *)
(* code point.  The state is the observation of a filter call and of the   *)
(* call that follows it (prev, cur); the filter objects themselves are     *)
(* unit structs and hold no state.                                         *)
(***************************************************************************)
EXTENDS Integers, Sequences, FiniteSets, TLC

VARIABLES prev, cur

vars == <<prev, cur>>

\* Longest enumerated input.
MaxLen == 4

-----------------------------------------------------------------------------
(* Characters *)

LowerLetters ==
  <<"a","b","c","d","e","f","g","h","i","j","k","l","m",
    "n","o","p","q","r","s","t","u","v","w","x","y","z">>

UpperLetters ==
  <<"A","B","C","D","E","F","G","H","I","J","K","L","M",
    "N","O","P","Q","R","S","T","U","V","W","X","Y","Z">>

DigitChars == {"0","1","2","3","4","5","6","7","8","9"}

Separators == {" ", "_", "-"}

\* U+00DF, LATIN SMALL LETTER SHARP S: a lowercase letter whose uppercase form
\* is the two characters "SS".
SharpS == "U+00DF"

\* U+0130, LATIN CAPITAL LETTER I WITH DOT ABOVE: an uppercase letter whose
\* lowercase form is "i" followed by U+0307, COMBINING DOT ABOVE, a mark that
\* is neither a letter nor a digit.
CapitalIDot == "U+0130"

CombiningDot == "U+0307"

LowerSet == {LowerLetters[i] : i \in 1..Len(LowerLetters)}

UpperSet == {UpperLetters[i] : i \in 1..Len(UpperLetters)}

\* The one-to-one case mappings of the ASCII letters.
UpperOf ==
  [c \in LowerSet |->
     UpperLetters[CHOOSE i \in 1..Len(LowerLetters) : LowerLetters[i] = c]]

LowerOf ==
  [c \in UpperSet |->
     LowerLetters[CHOOSE i \in 1..Len(UpperLetters) : UpperLetters[i] = c]]

is_lowercase(c) == c \in LowerSet \/ c = SharpS

is_uppercase(c) == c \in UpperSet \/ c = CapitalIDot

is_digit(c) == c \in DigitChars

\* Mutant: letters only, as char::is_alphabetic would answer.
is_alphabetic_only(c) == is_lowercase(c) \/ is_uppercase(c)

\* Mutant: the hyphen is taken for a word character.
is_alphanumeric_or_hyphen(c) ==
  is_lowercase(c) \/ is_uppercase(c) \/ is_digit(c) \/ c = "-"

is_alphanumeric(c) == is_lowercase(c) \/ is_uppercase(c) \/ is_digit(c)

\* c.to_uppercase() and c.to_lowercase(): the characters the mapping yields.
to_uppercase(c) ==
  IF c = SharpS THEN <<"S", "S">>
  ELSE IF c \in LowerSet THEN <<UpperOf[c]>>
  ELSE <<c>>

to_lowercase(c) ==
  IF c = CapitalIDot THEN <<"i", CombiningDot>>
  ELSE IF c \in UpperSet THEN <<LowerOf[c]>>
  ELSE <<c>>

-----------------------------------------------------------------------------
(* heck's per-word case functions, as the conversions called from lib.rs   *)
(* apply them.                                                             *)

RECURSIVE lowercase(_)
lowercase(s) ==
  IF s = <<>> THEN <<>> ELSE to_lowercase(Head(s)) \o lowercase(Tail(s))

RECURSIVE uppercase(_)
uppercase(s) ==
  IF s = <<>> THEN <<>> ELSE to_uppercase(Head(s)) \o uppercase(Tail(s))

capitalize(s) ==
  IF s = <<>> THEN <<>>
  ELSE to_uppercase(Head(s)) \o lowercase(Tail(s))

\* The names under which the filters are registered.
StyleNames ==
  {"uppercamelcase", "lowercamelcase", "snakecase", "kebabcase",
   "shoutysnakecase", "titlecase", "shoutykebabcase", "traincase"}

\* The boundary callback of each conversion: what is written between words.
boundary(style) ==
  CASE style \in {"uppercamelcase", "lowercamelcase"} -> <<>>
    [] style \in {"snakecase", "shoutysnakecase"} -> <<"_">>
    [] style \in {"kebabcase", "shoutykebabcase", "traincase"} -> <<"-">>
    [] style = "titlecase" -> <<" ">>

\* The with_word callback of each conversion.  `first` is the flag the
\* lower-camel closure keeps: TRUE until it has written its first word.
with_word(style, w, first) ==
  CASE style \in {"uppercamelcase", "titlecase", "traincase"} -> capitalize(w)
    [] style = "lowercamelcase" -> IF first THEN lowercase(w) ELSE capitalize(w)
    [] style \in {"snakecase", "kebabcase"} -> lowercase(w)
    [] style \in {"shoutysnakecase", "shoutykebabcase"} -> uppercase(w)

-----------------------------------------------------------------------------
(* heck's transform: split on non-alphanumerics, then scan each piece for  *)
(* case boundaries, writing every word through with_word and a boundary    *)
(* before every word but the first.                                        *)

\* s.split(|c| !c.is_alphanumeric()): the pieces (empty ones included), each
\* with its offset in s.
RECURSIVE splitFrom(_, _, _, _)
splitFrom(s, i, start, acc) ==
  IF i > Len(s)
  THEN Append(acc, [off |-> start - 1, word |-> SubSeq(s, start, Len(s))])
  ELSE IF ~is_alphanumeric(s[i])
       THEN splitFrom(s, i + 1, i + 1,
                      Append(acc, [off |-> start - 1, word |-> SubSeq(s, start, i - 1)]))
       ELSE splitFrom(s, i + 1, start, acc)

split(s) == splitFrom(s, 1, 1, <<>>)

\* The formatter state of one transform run: first_word, the lower-camel
\* closure's flag, the text written so far, and (observation only) the word
\* slices handed to with_word with their offsets in the input.
InitFmt == [first_word |-> TRUE, first |-> TRUE, out |-> <<>>,
            words |-> <<>>, starts |-> <<>>]

\* Mutant: the boundary is written before every word, the first included.
emit_always_boundary(style, w, at, st) ==
  [first_word |-> FALSE,
   first |-> FALSE,
   out |-> st.out \o boundary(style) \o with_word(style, w, st.first),
   words |-> Append(st.words, w),
   starts |-> Append(st.starts, at)]

\* One word is written: boundary unless it is the first, then with_word.
emit(style, w, at, st) ==
  [first_word |-> FALSE,
   first |-> FALSE,
   out |-> st.out \o (IF st.first_word THEN <<>> ELSE boundary(style))
                  \o with_word(style, w, st.first),
   words |-> Append(st.words, w),
   starts |-> Append(st.starts, at)]

\* next_mode: the mode including the current character c.
next_mode_of(c, mode) ==
  IF is_lowercase(c) THEN "Lowercase"
  ELSE IF is_uppercase(c) THEN "Uppercase"
  ELSE mode

\* Mutant: a digit after a lowercase letter also ends the word.
boundary_after_or_digit(next_mode, next) ==
  next_mode = "Lowercase" /\ (is_uppercase(next) \/ is_digit(next))

\* Mutant: the two cases are swapped.
boundary_after_swapped(next_mode, next) ==
  next_mode = "Uppercase" /\ is_lowercase(next)

\* "Word boundary after if current is not uppercase and next is uppercase".
boundary_after(next_mode, next) ==
  next_mode = "Lowercase" /\ is_uppercase(next)

\* Mutant: the current character is tested for the wrong case.
boundary_before_lower(mode, c, next) ==
  mode = "Uppercase" /\ is_lowercase(c) /\ is_lowercase(next)

\* "current and previous are uppercase and next is lowercase, word boundary
\* before".
boundary_before(mode, c, next) ==
  mode = "Uppercase" /\ is_uppercase(c) /\ is_lowercase(next)

\* The while-let loop over one piece; i is the (1-based) index of c, init the
\* index of the first character of the word being collected.
RECURSIVE scan(_, _, _, _, _, _, _)
scan(style, word, off, i, init, mode, st) ==
  IF i > Len(word) THEN st
  ELSE
    LET c == word[i] IN
    IF i < Len(word)
    THEN
      LET next == word[i + 1]
          next_mode == next_mode_of(c, mode)
      IN
      IF boundary_after(next_mode, next)
      THEN scan(style, word, off, i + 1, i + 1, "Boundary",
                emit(style, SubSeq(word, init, i), off + init - 1, st))
      ELSE IF boundary_before(mode, c, next)
      THEN scan(style, word, off, i + 1, i, "Boundary",
                emit(style, SubSeq(word, init, i - 1), off + init - 1, st))
      ELSE scan(style, word, off, i + 1, init, next_mode, st)
    ELSE emit(style, SubSeq(word, init, Len(word)), off + init - 1, st)

RECURSIVE forPieces(_, _, _, _)
forPieces(style, pieces, k, st) ==
  IF k > Len(pieces) THEN st
  ELSE forPieces(style, pieces, k + 1,
                 scan(style, pieces[k].word, pieces[k].off, 1, 1, "Boundary", st))

transform(s, style) == forPieces(style, split(s), 1, InitFmt)

-----------------------------------------------------------------------------
(* The eight conversions lib.rs imports.                                   *)

to_upper_camel_case(s) == transform(s, "uppercamelcase").out

to_lower_camel_case(s) == transform(s, "lowercamelcase").out

to_snake_case(s) == transform(s, "snakecase").out

to_kebab_case(s) == transform(s, "kebabcase").out

to_shouty_snake_case(s) == transform(s, "shoutysnakecase").out

to_title_case(s) == transform(s, "titlecase").out

to_shouty_kebab_case(s) == transform(s, "shoutykebabcase").out

to_train_case(s) == transform(s, "traincase").out

-----------------------------------------------------------------------------
(* The filters of lib.rs.                                                  *)

\* input.to_kstr(): the string form of the input value.  The inputs of the
\* model are string scalars, whose string form is the string they hold.
to_kstr(input) == input

\* Ok(Value::scalar(..)) and a filter-evaluation error.
Ok(v) == [ok |-> TRUE, value |-> v]

Err == [ok |-> FALSE, value |-> <<>>]

\* Mutant: the conversion depends on the runtime it is given.
UpperCamelCaseFilter_evaluate_by_runtime(input, runtime) ==
  IF runtime = "rt2"
  THEN Ok(to_lower_camel_case(to_kstr(input)))
  ELSE Ok(to_upper_camel_case(to_kstr(input)))

UpperCamelCaseFilter_evaluate(input, runtime) == Ok(to_upper_camel_case(to_kstr(input)))

LowerCamelCaseFilter_evaluate(input, runtime) == Ok(to_lower_camel_case(to_kstr(input)))

SnakeCaseFilter_evaluate(input, runtime) == Ok(to_snake_case(to_kstr(input)))

\* Mutant: the empty string is rejected.
KebabCaseFilter_evaluate_rejects_empty(input, runtime) ==
  IF to_kstr(input) = <<>> THEN Err ELSE Ok(to_kebab_case(to_kstr(input)))

KebabCaseFilter_evaluate(input, runtime) == Ok(to_kebab_case(to_kstr(input)))

ShoutySnakeCaseFilter_evaluate(input, runtime) == Ok(to_shouty_snake_case(to_kstr(input)))

\* Mutant: the body of another filter, pasted unchanged.
TitleCaseFilter_evaluate_as_train(input, runtime) == Ok(to_train_case(to_kstr(input)))

TitleCaseFilter_evaluate(input, runtime) == Ok(to_title_case(to_kstr(input)))

ShoutyKebabCaseFilter_evaluate(input, runtime) == Ok(to_shouty_kebab_case(to_kstr(input)))

\* Mutant: the body of the first filter, pasted unchanged.
TrainCaseFilter_evaluate_as_upper_camel(input, runtime) ==
  Ok(to_upper_camel_case(to_kstr(input)))

TrainCaseFilter_evaluate(input, runtime) == Ok(to_train_case(to_kstr(input)))

-----------------------------------------------------------------------------
(* Inputs *)

\* The characters of the enumerated inputs: one of each class.
Alphabet == {"a", "A", "1", "_"}

\* The inputs of the tests and of the crate's doc example, and the spec's
\* acronym example.
Abc == <<"a","b","c">>

HelloSpaces == <<"h","e","l","l","o"," ","w","o","r","l","d"," ","2","1">>

HelloUnderscores == <<"h","e","l","l","o","_","w","o","r","l","d","_","2","1">>

HelloWorld21 == <<"H","e","l","l","o","W","o","r","l","d","2","1">>

SomeText == <<"S","o","m","e"," ","t","e","x","t"," ","t","o"," ","c","o","n","v","e","r","t">>

XMLParser == <<"X","M","L","P","a","r","s","e","r">>

\* Inputs with a character whose case mapping is longer than one character.
NonAsciiInputs ==
  {<<SharpS>>, <<"a", SharpS>>, <<SharpS, "_", "A", SharpS>>,
   <<CapitalIDot>>, <<"a", CapitalIDot, "a">>}

Examples ==
  {Abc, HelloSpaces, HelloUnderscores, HelloWorld21, SomeText, XMLParser}
    \cup NonAsciiInputs

Inputs == (UNION {[1..k -> Alphabet] : k \in 0..MaxLen}) \cup Examples

\* The runtime contexts a call may be given.
Runtimes == {"rt1", "rt2"}

\* The strings that differ from s only in which separator stands at each
\* separator position.
RECURSIVE SepVariants(_)
SepVariants(s) ==
  IF s = <<>> THEN {<<>>}
  ELSE LET heads == IF Head(s) \in Separators THEN Separators ELSE {Head(s)}
       IN {<<h>> \o r : h \in heads, r \in SepVariants(Tail(s))}

-----------------------------------------------------------------------------
(* State machine: calls of the filters.                                    *)

NoCall == [name |-> "none", input |-> <<>>, runtime |-> "none", output |-> Ok(<<>>)]

Init == prev = NoCall /\ cur = NoCall

\* The model follows one call and one follow-up call of the same filter.
\* The first call is given any input; the follow-up is given the same input
\* again, the first call's output (a chained filter), or the input with
\* other separators.
NextInputs(name) ==
  IF cur = NoCall THEN Inputs
  ELSE IF cur.name = name /\ prev = NoCall
       THEN {cur.input, cur.output.value} \cup SepVariants(cur.input)
       ELSE {}

Called(name, input, runtime, output) ==
  /\ prev' = cur
  /\ cur' = [name |-> name, input |-> input, runtime |-> runtime, output |-> output]

UpperCamelCase ==
  \E input \in NextInputs("uppercamelcase"), runtime \in Runtimes :
    Called("uppercamelcase", input, runtime, UpperCamelCaseFilter_evaluate(input, runtime))

LowerCamelCase ==
  \E input \in NextInputs("lowercamelcase"), runtime \in Runtimes :
    Called("lowercamelcase", input, runtime, LowerCamelCaseFilter_evaluate(input, runtime))

SnakeCase ==
  \E input \in NextInputs("snakecase"), runtime \in Runtimes :
    Called("snakecase", input, runtime, SnakeCaseFilter_evaluate(input, runtime))

KebabCase ==
  \E input \in NextInputs("kebabcase"), runtime \in Runtimes :
    Called("kebabcase", input, runtime, KebabCaseFilter_evaluate(input, runtime))

ShoutySnakeCase ==
  \E input \in NextInputs("shoutysnakecase"), runtime \in Runtimes :
    Called("shoutysnakecase", input, runtime, ShoutySnakeCaseFilter_evaluate(input, runtime))

TitleCase ==
  \E input \in NextInputs("titlecase"), runtime \in Runtimes :
    Called("titlecase", input, runtime, TitleCaseFilter_evaluate(input, runtime))

ShoutyKebabCase ==
  \E input \in NextInputs("shoutykebabcase"), runtime \in Runtimes :
    Called("shoutykebabcase", input, runtime, ShoutyKebabCaseFilter_evaluate(input, runtime))

TrainCase ==
  \E input \in NextInputs("traincase"), runtime \in Runtimes :
    Called("traincase", input, runtime, TrainCaseFilter_evaluate(input, runtime))

Next ==
  \/ UpperCamelCase
  \/ LowerCamelCase
  \/ SnakeCase
  \/ KebabCase
  \/ ShoutySnakeCase
  \/ TitleCase
  \/ ShoutyKebabCase
  \/ TrainCase

Spec == Init /\ [][Next]_vars

-----------------------------------------------------------------------------
(* The assertions of the tests module and of the crate's doc example: the  *)
(* model returns what they expect.                                         *)

TestAssertions ==
  {
   [name |-> "uppercamelcase", input |-> Abc,
    value |-> <<"A","b","c">>],
   [name |-> "uppercamelcase", input |-> HelloSpaces,
    value |-> <<"H","e","l","l","o","W","o","r","l","d","2","1">>],
   [name |-> "uppercamelcase", input |-> HelloUnderscores,
    value |-> <<"H","e","l","l","o","W","o","r","l","d","2","1">>],
   [name |-> "uppercamelcase", input |-> HelloWorld21,
    value |-> <<"H","e","l","l","o","W","o","r","l","d","2","1">>],
   [name |-> "lowercamelcase", input |-> Abc,
    value |-> <<"a","b","c">>],
   [name |-> "lowercamelcase", input |-> HelloSpaces,
    value |-> <<"h","e","l","l","o","W","o","r","l","d","2","1">>],
   [name |-> "lowercamelcase", input |-> HelloUnderscores,
    value |-> <<"h","e","l","l","o","W","o","r","l","d","2","1">>],
   [name |-> "lowercamelcase", input |-> HelloWorld21,
    value |-> <<"h","e","l","l","o","W","o","r","l","d","2","1">>],
   [name |-> "snakecase", input |-> Abc,
    value |-> <<"a","b","c">>],
   [name |-> "snakecase", input |-> HelloSpaces,
    value |-> <<"h","e","l","l","o","_","w","o","r","l","d","_","2","1">>],
   [name |-> "snakecase", input |-> HelloUnderscores,
    value |-> <<"h","e","l","l","o","_","w","o","r","l","d","_","2","1">>],
   [name |-> "snakecase", input |-> HelloWorld21,
    value |-> <<"h","e","l","l","o","_","w","o","r","l","d","2","1">>],
   [name |-> "kebabcase", input |-> Abc,
    value |-> <<"a","b","c">>],
   [name |-> "kebabcase", input |-> HelloSpaces,
    value |-> <<"h","e","l","l","o","-","w","o","r","l","d","-","2","1">>],
   [name |-> "kebabcase", input |-> HelloUnderscores,
    value |-> <<"h","e","l","l","o","-","w","o","r","l","d","-","2","1">>],
   [name |-> "kebabcase", input |-> HelloWorld21,
    value |-> <<"h","e","l","l","o","-","w","o","r","l","d","2","1">>],
   [name |-> "shoutysnakecase", input |-> Abc,
    value |-> <<"A","B","C">>],
   [name |-> "shoutysnakecase", input |-> HelloSpaces,
    value |-> <<"H","E","L","L","O","_","W","O","R","L","D","_","2","1">>],
   [name |-> "shoutysnakecase", input |-> HelloUnderscores,
    value |-> <<"H","E","L","L","O","_","W","O","R","L","D","_","2","1">>],
   [name |-> "shoutysnakecase", input |-> HelloWorld21,
    value |-> <<"H","E","L","L","O","_","W","O","R","L","D","2","1">>],
   [name |-> "titlecase", input |-> Abc,
    value |-> <<"A","b","c">>],
   [name |-> "titlecase", input |-> HelloSpaces,
    value |-> <<"H","e","l","l","o"," ","W","o","r","l","d"," ","2","1">>],
   [name |-> "titlecase", input |-> HelloUnderscores,
    value |-> <<"H","e","l","l","o"," ","W","o","r","l","d"," ","2","1">>],
   [name |-> "titlecase", input |-> HelloWorld21,
    value |-> <<"H","e","l","l","o"," ","W","o","r","l","d","2","1">>],
   [name |-> "shoutykebabcase", input |-> Abc,
    value |-> <<"A","B","C">>],
   [name |-> "shoutykebabcase", input |-> HelloSpaces,
    value |-> <<"H","E","L","L","O","-","W","O","R","L","D","-","2","1">>],
   [name |-> "shoutykebabcase", input |-> HelloUnderscores,
    value |-> <<"H","E","L","L","O","-","W","O","R","L","D","-","2","1">>],
   [name |-> "shoutykebabcase", input |-> HelloWorld21,
    value |-> <<"H","E","L","L","O","-","W","O","R","L","D","2","1">>],
   [name |-> "traincase", input |-> Abc,
    value |-> <<"A","b","c">>],
   [name |-> "traincase", input |-> HelloSpaces,
    value |-> <<"H","e","l","l","o","-","W","o","r","l","d","-","2","1">>],
   [name |-> "traincase", input |-> HelloUnderscores,
    value |-> <<"H","e","l","l","o","-","W","o","r","l","d","-","2","1">>],
   [name |-> "traincase", input |-> HelloWorld21,
    value |-> <<"H","e","l","l","o","-","W","o","r","l","d","2","1">>],
   [name |-> "uppercamelcase", input |-> SomeText,
    value |-> <<"S","o","m","e","T","e","x","t","T","o","C","o","n","v","e","r","t">>],
   [name |-> "snakecase", input |-> SomeText,
    value |-> <<"s","o","m","e","_","t","e","x","t","_","t","o","_","c","o","n","v","e","r","t">>],
   [name |-> "traincase", input |-> SomeText,
    value |-> <<"S","o","m","e","-","T","e","x","t","-","T","o","-","C","o","n","v","e","r","t">>]
  }

\* Every call the tests make returns the value the tests assert.
TestsAgree ==
  \A a \in TestAssertions :
    (cur.name = a.name /\ cur.input = a.input) => cur.output = Ok(a.value)

-----------------------------------------------------------------------------
(* Vocabulary of the properties.                                           *)

\* The words handed to with_word, in order, and the (1-based) positions in
\* the input at which they start.  They do not depend on the style.
Segment(s) == transform(s, "snakecase").words

WordStarts(s) ==
  LET at == transform(s, "snakecase").starts
  IN {at[k] + 1 : k \in 1..Len(at)}

IsLetter(c) == is_lowercase(c) \/ is_uppercase(c)

IsAlnum(c) == IsLetter(c) \/ is_digit(c)

IsAscii(c) ==
  c \in LowerSet \/ c \in UpperSet \/ is_digit(c) \/ c \in Separators

AsciiString(s) == \A i \in 1..Len(s) : IsAscii(s[i])

RECURSIVE Flatten(_)
Flatten(ws) == IF ws = <<>> THEN <<>> ELSE Head(ws) \o Flatten(Tail(ws))

RECURSIVE Join(_, _)
Join(ws, sep) ==
  IF ws = <<>> THEN <<>>
  ELSE IF Len(ws) = 1 THEN ws[1]
  ELSE ws[1] \o sep \o Join(Tail(ws), sep)

\* The style table of the specification.
StyleSeparator ==
  [uppercamelcase |-> <<>>, lowercamelcase |-> <<>>,
   snakecase |-> <<"_">>, kebabcase |-> <<"-">>,
   shoutysnakecase |-> <<"_">>, shoutykebabcase |-> <<"-">>,
   titlecase |-> <<" ">>, traincase |-> <<"-">>]

StyleWordCase ==
  [uppercamelcase |-> "CapitalizeFirst", lowercamelcase |-> "CapitalizeFirst",
   snakecase |-> "LowerAll", kebabcase |-> "LowerAll",
   shoutysnakecase |-> "UpperAll", shoutykebabcase |-> "UpperAll",
   titlecase |-> "CapitalizeFirst", traincase |-> "CapitalizeFirst"]

RECURSIVE LowerAll(_)
LowerAll(w) ==
  IF w = <<>> THEN <<>> ELSE to_lowercase(Head(w)) \o LowerAll(Tail(w))

RECURSIVE UpperAll(_)
UpperAll(w) ==
  IF w = <<>> THEN <<>> ELSE to_uppercase(Head(w)) \o UpperAll(Tail(w))

ApplyCase(kind, w) ==
  CASE kind = "LowerAll" -> LowerAll(w)
    [] kind = "UpperAll" -> UpperAll(w)
    [] kind = "CapitalizeFirst" ->
         IF w = <<>> THEN <<>> ELSE to_uppercase(Head(w)) \o LowerAll(Tail(w))

Render(words, name) ==
  Join([k \in 1..Len(words) |->
          IF k = 1 /\ name = "lowercamelcase"
          THEN ApplyCase("LowerAll", words[k])
          ELSE ApplyCase(StyleWordCase[name], words[k])],
       StyleSeparator[name])

SeparatorCount(s) == Cardinality({i \in 1..Len(s) : ~IsAlnum(s[i])})

-----------------------------------------------------------------------------
(* Properties *)

\* C1: the filter registered under each of the eight names returns exactly
\* render(segment(input), style): the segmented words, each in the style's
\* word case (the first word of lowercamelcase lowercased entirely), joined
\* by the style's separator.
C1_FilterIsRenderOfSegment ==
  cur # NoCall =>
    /\ cur.output.ok
    /\ cur.output.value = Render(Segment(cur.input), cur.name)

\* A lowercamelcase call on a three-word input with a separator and a case
\* boundary: the first word is lowercased, the others capitalized.
C1_Witness ==
  /\ cur.name = "lowercamelcase"
  /\ cur.input = <<"A", "_", "a", "A">>
  /\ cur.output.value = <<"a", "A", "A">>

\* C6: every call returns Ok, and on the empty input every filter returns
\* the empty string.
C6_Total ==
  cur # NoCall =>
    /\ cur.output.ok
    /\ (cur.input = <<>> => cur.output.value = <<>>)

\* A filter has been called on the empty string.
C6_Witness ==
  /\ cur.name = "traincase"
  /\ cur.input = <<>>
  /\ cur.output = Ok(<<>>)

\* C7: the segmented words, concatenated unchanged, are exactly the input's
\* letters and digits in their order, and no word holds a separator.
C7_SegmentKeepsAlphanumerics ==
  cur # NoCall =>
    LET ws == Segment(cur.input) IN
    /\ Flatten(ws) = SelectSeq(cur.input, IsAlnum)
    /\ \A k \in 1..Len(ws) : \A i \in 1..Len(ws[k]) : ws[k][i] \notin Separators

\* An input with leading and inner separators, a digit and a case boundary.
C7_Witness ==
  /\ cur.input = <<"_", "a", "A", "1">>
  /\ Segment(cur.input) = << <<"a">>, <<"A", "1">> >>

\* C9: wherever a lowercase letter is immediately followed by an uppercase
\* letter, a word starts at the uppercase letter.
C9_CamelBoundary ==
  cur # NoCall =>
    LET s == cur.input
        starts == WordStarts(s)
    IN
    \A p \in 2..Len(s) :
      (is_lowercase(s[p - 1]) /\ is_uppercase(s[p])) => p \in starts

\* titlecase of "HelloWorld21" is "Hello World21".
C9_Witness ==
  /\ cur.name = "titlecase"
  /\ cur.input = HelloWorld21
  /\ cur.output.value = <<"H","e","l","l","o"," ","W","o","r","l","d","2","1">>

\* The first position of the run of uppercase letters that ends at p.
RECURSIVE RunStart(_, _)
RunStart(s, p) ==
  IF p > 1 /\ is_uppercase(s[p - 1]) THEN RunStart(s, p - 1) ELSE p

\* C10: where two or more uppercase letters are immediately followed by a
\* lowercase letter, a word starts at the last uppercase letter, the
\* uppercase letters before it lie in one word, and that word starts with the
\* run unless a digit precedes the run.
C10_AcronymBoundary ==
  cur # NoCall =>
    LET s == cur.input
        starts == WordStarts(s)
    IN
    \A p \in 2..(Len(s) - 1) :
      (is_uppercase(s[p - 1]) /\ is_uppercase(s[p]) /\ is_lowercase(s[p + 1]))
        => LET r == RunStart(s, p - 1) IN
           /\ p \in starts
           /\ \A q \in (r + 1)..(p - 1) : q \notin starts
           /\ (r = 1 \/ ~is_digit(s[r - 1])) => r \in starts

\* snakecase of "XMLParser" is "xml_parser".
C10_Witness ==
  /\ cur.name = "snakecase"
  /\ cur.input = XMLParser
  /\ Segment(cur.input) = << <<"X","M","L">>, <<"P","a","r","s","e","r">> >>
  /\ cur.output.value = <<"x","m","l","_","p","a","r","s","e","r">>

\* The nearest letter before the digits that end at position p - 1, within
\* the same separator-free piece; 0 when there is none.
RECURSIVE LetterBefore(_, _)
LetterBefore(s, p) ==
  IF p <= 1 THEN 0
  ELSE IF IsLetter(s[p - 1]) THEN p - 1
  ELSE IF is_digit(s[p - 1]) THEN LetterBefore(s, p - 1)
  ELSE 0

\* C2 as stated: neither a letter-to-digit nor a digit-to-letter transition
\* is ever a word boundary, and a digit starts a word only after a separator
\* or at the start of the input.
C2_NoDigitTransitionIsBoundary ==
  cur # NoCall =>
    LET s == cur.input
        starts == WordStarts(s)
    IN
    \A p \in starts :
      /\ p > 1 => ~(IsLetter(s[p - 1]) /\ is_digit(s[p]))
      /\ p > 1 => ~(is_digit(s[p - 1]) /\ IsLetter(s[p]))
      /\ is_digit(s[p]) => (p = 1 \/ ~IsAlnum(s[p - 1]))

\* A digit-to-letter transition at p is a boundary under the scan: the
\* letter is uppercase and the letter before the digits is lowercase, or is
\* uppercase while the letter at p is followed by a lowercase letter.
DigitToUpperBoundary(s, p) ==
  LET l == LetterBefore(s, p) IN
  /\ is_uppercase(s[p])
  /\ l > 0
  /\ \/ is_lowercase(s[l])
     \/ /\ is_uppercase(s[l])
        /\ p < Len(s)
        /\ is_lowercase(s[p + 1])

\* C2, amended: a letter-to-digit transition is never a word boundary, a
\* digit starts a word only after a separator or at the start of the input,
\* and a digit-to-letter transition is a boundary exactly when the letter is
\* uppercase and the digits follow a lowercase letter ("a1A" is a1, A), or
\* follow an uppercase letter while the letter is followed by a lowercase
\* one ("A1Aa" is A1, Aa).
C2_DigitAdjacency ==
  cur # NoCall =>
    LET s == cur.input
        starts == WordStarts(s)
    IN
    /\ \A p \in starts :
         /\ p > 1 => ~(IsLetter(s[p - 1]) /\ is_digit(s[p]))
         /\ is_digit(s[p]) => (p = 1 \/ ~IsAlnum(s[p - 1]))
    /\ \A p \in 2..Len(s) :
         (is_digit(s[p - 1]) /\ IsLetter(s[p]))
           => (p \in starts <=> DigitToUpperBoundary(s, p))

\* snakecase of "HelloWorld21" keeps World21 in one word.
C2_Witness ==
  /\ cur.name = "snakecase"
  /\ cur.input = HelloWorld21
  /\ Segment(cur.input) = << <<"H","e","l","l","o">>, <<"W","o","r","l","d","2","1">> >>
  /\ cur.output.value = <<"h","e","l","l","o","_","w","o","r","l","d","2","1">>

\* The styles with a non-empty separator.
SeparatedStyles ==
  {"snakecase", "kebabcase", "shoutysnakecase", "shoutykebabcase",
   "titlecase", "traincase"}

\* The second of two calls is the same filter, one with a non-empty
\* separator, given the first call's output.
ChainedSameStyle ==
  /\ prev # NoCall
  /\ cur.name = prev.name
  /\ cur.name \in SeparatedStyles
  /\ cur.input = prev.output.value

\* C3 as stated: for every input, a filter with a non-empty separator, given
\* its own output, returns it unchanged.
C3_SameStyleIdempotentEveryInput ==
  ChainedSameStyle => cur.output = prev.output

\* C3, amended: for every input of ASCII characters, a filter with a
\* non-empty separator, given its own output, returns it unchanged.
C3_SameStyleIdempotent ==
  (ChainedSameStyle /\ AsciiString(prev.input))
    => cur.output = prev.output

\* titlecase applied to its own output on an input it had to split and
\* recase.
C3_Witness ==
  /\ prev.name = "titlecase" /\ cur.name = "titlecase"
  /\ prev.input = <<"a", "A", "A", "a">>
  /\ prev.output.value = <<"A", " ", "A", " ", "A", "a">>
  /\ cur.input = prev.output.value
  /\ cur.output = prev.output

\* The part of C4 that does not count: the output neither starts nor ends
\* with a separator, has no two separators in a row, holds no character that
\* is neither alphanumeric nor the style's separator, and no word is empty.
OutputWellSeparated ==
  LET out == cur.output.value
      ws == Segment(cur.input)
  IN
  /\ out # <<>> => (IsAlnum(out[1]) /\ IsAlnum(out[Len(out)]))
  /\ \A i \in 1..(Len(out) - 1) : IsAlnum(out[i]) \/ IsAlnum(out[i + 1])
  /\ \A i \in 1..Len(out) : IsAlnum(out[i]) \/ <<out[i]>> = StyleSeparator[cur.name]
  /\ \A k \in 1..Len(ws) : ws[k] # <<>>

\* C4 as stated: for every input and every style the output is well
\* separated and holds exactly (number of words - 1) separator characters.
C4_SeparatorCountIsWordsMinusOne ==
  cur # NoCall =>
    /\ OutputWellSeparated
    /\ SeparatorCount(cur.output.value) = Len(Segment(cur.input)) - 1

\* C4, amended: for every input of ASCII characters the output is well
\* separated; it holds exactly (number of words - 1) separator characters
\* when the style's separator is non-empty and there is at least one word,
\* and none otherwise.
C4_OnlyInsertedSeparators ==
  (cur # NoCall /\ AsciiString(cur.input)) =>
    /\ OutputWellSeparated
    /\ SeparatorCount(cur.output.value) =
         IF StyleSeparator[cur.name] = <<>> \/ Segment(cur.input) = <<>>
         THEN 0
         ELSE Len(Segment(cur.input)) - 1

\* kebabcase of two words with two separators between them.
C4_Witness ==
  /\ cur.name = "kebabcase"
  /\ cur.input = <<"a", "_", "_", "A">>
  /\ cur.output.value = <<"a", "-", "a">>

\* C5: two inputs that differ only in which separator stands at each
\* separator position get the same output from the same filter.
C5_SeparatorsNormalized ==
  (/\ prev # NoCall
   /\ cur.name = prev.name
   /\ cur.input \in SepVariants(prev.input))
    => cur.output = prev.output

\* traincase of "hello_world_21", then of "hello world 21".
C5_Witness ==
  /\ prev.name = "traincase" /\ cur.name = "traincase"
  /\ prev.input = HelloUnderscores
  /\ cur.input = HelloSpaces
  /\ cur.output.value =
       <<"H","e","l","l","o","-","W","o","r","l","d","-","2","1">>

====
